---- MODULE Spec2Model ----
(***************************************************************************)
(* Greenhouse irrigation controller (src/cpp.cpp): the setup() sequence,   *)
(* the loop() iteration (reconnect, client.loop(), the polling tick with   *)
(* its pump decision, safety delay, display refresh and publish) and the   *)
(* MQTT callback that retunes the moisture threshold.                      *)
(***************************************************************************)
EXTENDS Integers, Sequences, FiniteSets, TLC

\* ------------------------------------------------------------------------
\* Program constants
\* ------------------------------------------------------------------------
DRY_VAL == 4095
WET_VAL == 1200
WATER_SENSOR_THRESHOLD == 1000
INVERT_WATER_LOGIC == FALSE
LOOP_DELAY == 2000
PUMP_SAFETY_DELAY == 500
DefaultThreshold == 30
WifiSettle == 10
WifiPoll == 500
CONTROL_TOPIC == "smartgarden_control"
OtherTopic == "smartgarden_other"

\* ------------------------------------------------------------------------
\* Bounds of the model
\* ------------------------------------------------------------------------
\* Milliseconds of run time explored.
MaxTime == 6600
\* Inbound packets that may wait on the socket at once.
MaxInbox == 1

\* ------------------------------------------------------------------------
\* unsigned long (32 bit) arithmetic, kept as two 16-bit limbs
\* ------------------------------------------------------------------------
Limb == 65536

U32(n) == [hi |-> (n \div Limb) % Limb, lo |-> n % Limb]

Add32(a, d) ==
    LET s == a.lo + d
    IN  [hi |-> (a.hi + (s \div Limb)) % Limb, lo |-> s % Limb]

Sub32(a, b) ==
    LET l == a.lo - b.lo
        borrow == IF l < 0 THEN 1 ELSE 0
    IN  [hi |-> (a.hi - b.hi - borrow) % Limb, lo |-> l % Limb]

\* a >= n for an unsigned a and a small non-negative n (n < Limb)
GE32(a, n) == a.hi > 0 \/ a.lo >= n

\* ------------------------------------------------------------------------
\* float values: NaN or a number kept in tenths
\* ------------------------------------------------------------------------
NaN == [nan |-> TRUE, v |-> 0]
Num(tenths) == [nan |-> FALSE, v |-> tenths]

\* ------------------------------------------------------------------------
\* Inputs
\* ------------------------------------------------------------------------
\* readTemperature() and readHumidity() of one tick decode the same sensor
\* frame: both fail or both succeed
DhtReads == { [t |-> NaN, h |-> NaN], [t |-> Num(234), h |-> Num(550)] }
SoilRaws == {4095, 3250, 3226, 1200}
WaterRaws == {1000, 1001}
Elapses == {500, 2000, 4500}

Payloads ==
    { <<"4", "5">>, <<"1">>, <<"0">>, <<"1", "0", "0">>, <<"-", "5">>,
      << >>, <<"a", "b", "c">>, <<"4", "5", "a", "b", "c">>, <<" ", "4", "5">> }

Msgs ==
    { [topic |-> CONTROL_TOPIC, payload |-> p] : p \in Payloads }
        \cup { [topic |-> OtherTopic, payload |-> <<"4", "5">>] }

\* the messages of the runs that vary the sensors
CoreMsgs == { [topic |-> CONTROL_TOPIC, payload |-> <<"4", "5">>] }

NoMsg == [topic |-> "", payload |-> << >>]

\* ------------------------------------------------------------------------
\* Library arithmetic used by the sketch
\* ------------------------------------------------------------------------
Abs(x) == IF x < 0 THEN -x ELSE x

\* C integer division truncates toward zero
CDiv(a, b) ==
    IF (a >= 0) = (b > 0) THEN Abs(a) \div Abs(b) ELSE -(Abs(a) \div Abs(b))

\* long map(long x, long in_min, long in_max, long out_min, long out_max)
map(x, in_min, in_max, out_min, out_max) ==
    CDiv((x - in_min) * (out_max - out_min), in_max - in_min) + out_min

\* #define constrain(amt,low,high)
constrain(amt, low, high) ==
    IF amt < low THEN low ELSE IF amt > high THEN high ELSE amt

\* the mapping without the constrain() of line 133
SoilPctUnclamped(rawSoil) == map(rawSoil, DRY_VAL, WET_VAL, 0, 100)

SoilPctOf(rawSoil) == constrain(map(rawSoil, DRY_VAL, WET_VAL, 0, 100), 0, 100)

\* the gate with >= in place of >
WaterGateAtOrAbove(raw, invert) ==
    LET waterCondition == raw >= WATER_SENSOR_THRESHOLD
    IN  IF invert THEN ~waterCondition ELSE waterCondition

WaterGate(raw, invert) ==
    LET waterCondition == raw > WATER_SENSOR_THRESHOLD
    IN  IF invert THEN ~waterCondition ELSE waterCondition

\* ------------------------------------------------------------------------
\* String::toInt() == atol(): skip white space, an optional sign, then the
\* longest run of digits; 0 when there is none
\* ------------------------------------------------------------------------
Digits == <<"0", "1", "2", "3", "4", "5", "6", "7", "8", "9">>
IsDigit(c) == \E i \in 1..10 : Digits[i] = c
DigitVal(c) == (CHOOSE i \in 1..10 : Digits[i] = c) - 1
IsSpace(c) == c \in {" ", "\t", "\n", "\r"}

RECURSIVE SkipSpace(_)
SkipSpace(s) ==
    IF s # << >> /\ IsSpace(Head(s)) THEN SkipSpace(Tail(s)) ELSE s

RECURSIVE ParseDigits(_, _)
ParseDigits(s, acc) ==
    IF s # << >> /\ IsDigit(Head(s))
    THEN ParseDigits(Tail(s), acc * 10 + DigitVal(Head(s)))
    ELSE acc

toInt(s) ==
    LET t == SkipSpace(s)
    IN  IF t = << >> THEN 0
        ELSE IF Head(t) = "-" THEN -ParseDigits(Tail(t), 0)
        ELSE IF Head(t) = "+" THEN ParseDigits(Tail(t), 0)
        ELSE ParseDigits(t, 0)

\* ------------------------------------------------------------------------
\* String(int), String(float, decimalPlaces)
\* ------------------------------------------------------------------------
RECURSIVE NatChars(_)
NatChars(n) ==
    IF n < 10 THEN <<Digits[n + 1]>>
    ELSE NatChars(n \div 10) \o <<Digits[(n % 10) + 1]>>

IntChars(n) == IF n < 0 THEN <<"-">> \o NatChars(-n) ELSE NatChars(n)

\* x is kept in tenths, so one decimal place prints it exactly and zero
\* decimal places rounds it half away from zero
FloatChars(x, decimalPlaces) ==
    IF x.nan THEN <<"n", "a", "n">>
    ELSE IF decimalPlaces = 1
         THEN (IF x.v < 0 THEN <<"-">> ELSE << >>)
                  \o NatChars(Abs(x.v) \div 10) \o <<".">> \o NatChars(Abs(x.v) % 10)
         ELSE (IF x.v < 0 THEN <<"-">> ELSE << >>)
                  \o NatChars((Abs(x.v) + 5) \div 10)

\* ------------------------------------------------------------------------
\* State
\* ------------------------------------------------------------------------
VARIABLES
    pc,                 \* position of the control thread
    now,                \* millis(), 32 bit
    relay,              \* level of RELAY_PIN: "UNDRIVEN", "LOW", "HIGH"
    displayOk,          \* result of display.begin()
    connected,          \* client.connected()
    subscribed,         \* CONTROL_TOPIC subscribed on this connection
    pending,            \* inbound packets waiting on the socket
    autoWaterThreshold,
    lastLoopTime,
    temp,
    hum,
    soilPct,
    waterLevelRaw,
    waterOk,
    pumpOn,
    screen,             \* last frame sent to the display
    \* observers of the run
    elapsed,            \* milliseconds since the run began, never wrapping
    lastMsg,            \* arguments of the last callback() call
    prevPumpOn,         \* pumpOn when the last tick began
    decision,           \* branch taken by the last tick
    tickThreshold,      \* autoWaterThreshold read by the last tick's decision
    tickStart,          \* millis() at which the last tick began
    blocked,            \* milliseconds the last finished tick spent in delay()
    tickCount,          \* ticks begun
    pubCount,           \* publishes made
    published,          \* payload published by the last tick, or << >>
    pubConnected,       \* client.connected() as read by the last finished tick
    dhtFailed,          \* the DHT reads of the last tick returned NaN
    tickAt,             \* `elapsed` when the last tick began
    connects,           \* client.connect() calls made by reconnect() in this
                        \* iteration of loop(), until client.loop() is entered
    \* the calibration functions applied on their own
    fnPc,               \* "idle", "input" (arguments drawn), "done" (applied)
    gateRaw,
    gateInvert,
    gateOk,
    mapRaw,
    mapRaw2,
    mapPct,
    mapPct2

progVars ==
    <<pc, now, relay, displayOk, connected, subscribed, pending,
      autoWaterThreshold, lastLoopTime, temp, hum, soilPct, waterLevelRaw,
      waterOk, pumpOn, screen>>

obsVars ==
    <<elapsed, lastMsg, prevPumpOn, decision, tickThreshold,
      tickStart, blocked, tickCount, pubCount, published,
      pubConnected, dhtFailed, tickAt, connects>>

fnVars == <<fnPc, gateRaw, gateInvert, gateOk, mapRaw, mapRaw2, mapPct, mapPct2>>

vars == <<progVars, obsVars, fnVars>>

NoScreen == [soil |-> -1, set |-> -1, temp |-> << >>, water |-> -1, pump |-> ""]

Boot ==
    /\ pc = "setup"
    /\ now = U32(0)
    /\ relay = "UNDRIVEN"
    /\ displayOk = FALSE
    /\ connected = FALSE
    /\ subscribed = FALSE
    /\ pending = 0
    /\ autoWaterThreshold = DefaultThreshold
    /\ lastLoopTime = U32(0)
    /\ temp = Num(0)
    /\ hum = Num(0)
    /\ soilPct = 0
    /\ waterLevelRaw = 0
    /\ waterOk = FALSE
    /\ pumpOn = FALSE
    /\ screen = NoScreen
    /\ elapsed = 0
    /\ lastMsg = NoMsg
    /\ prevPumpOn = FALSE
    /\ decision = "NONE"
    /\ tickThreshold = DefaultThreshold
    /\ tickStart = U32(0)
    /\ blocked = 0
    /\ tickCount = 0
    /\ pubCount = 0
    /\ published = << >>
    /\ pubConnected = FALSE
    /\ dhtFailed = FALSE
    /\ tickAt = 0
    /\ connects = 0

FnIdle ==
    /\ fnPc = "idle"
    /\ gateRaw = 0
    /\ gateInvert = INVERT_WATER_LOGIC
    /\ gateOk = FALSE
    /\ mapRaw = DRY_VAL
    /\ mapRaw2 = DRY_VAL
    /\ mapPct = 0
    /\ mapPct2 = 0

Init == Boot /\ FnIdle


\* ------------------------------------------------------------------------
\* Decisions of the sketch
\* ------------------------------------------------------------------------
\* callback() accepting 0: newThreshold >= 0 in place of newThreshold > 0
NewThresholdFromZero(topic, message, cur) ==
    IF topic = CONTROL_TOPIC
    THEN LET newThreshold == toInt(message)
         IN  IF newThreshold >= 0 /\ newThreshold < 100 THEN newThreshold ELSE cur
    ELSE cur

\* callback() without the topic comparison
NewThresholdAnyTopic(topic, message, cur) ==
    LET newThreshold == toInt(message)
    IN  IF newThreshold > 0 /\ newThreshold < 100 THEN newThreshold ELSE cur

\* callback(): the threshold after a message on `topic` carrying `message`
NewThreshold(topic, message, cur) ==
    IF topic = CONTROL_TOPIC
    THEN LET newThreshold == toInt(message)
         IN  IF newThreshold > 0 /\ newThreshold < 100 THEN newThreshold ELSE cur
    ELSE cur

\* the decision with the soil comparison ahead of the !waterOk test
decideSoilFirst(soil, wok, threshold) ==
    IF soil < threshold THEN "PUMP_ON" ELSE "PUMP_OFF"

\* the decision without the !waterOk branch
decideNoInterlock(soil, wok, threshold) ==
    IF soil < threshold THEN "PUMP_ON" ELSE "PUMP_OFF"

\* the decision with <= in place of <
decideAtOrBelow(soil, wok, threshold) ==
    IF ~wok THEN "PUMP_OFF"
    ELSE IF soil <= threshold THEN "PUMP_ON"
    ELSE "PUMP_OFF"

\* loop(): the branch of the if / else if / else that drives the relay
decide(soil, wok, threshold) ==
    IF ~wok THEN "PUMP_OFF"
    ELSE IF soil < threshold THEN "PUMP_ON"
    ELSE "PUMP_OFF"

\* an active-low relay board: the two levels swapped
RelayLevelActiveLow(dec) == IF dec = "PUMP_ON" THEN "LOW" ELSE "HIGH"

RelayLevel(dec) == IF dec = "PUMP_ON" THEN "HIGH" ELSE "LOW"

\* a tick that keeps the previous value when the sensor returns NaN
StoreReadingKeepLast(read, old) == IF read.nan THEN old ELSE read

\* temp = dht.readTemperature(); hum = dht.readHumidity();
StoreReading(read, old) == read

\* callback() that also re-evaluates the pump with the new threshold
callbackAppliesNow(topic, message, g) ==
    LET th == NewThreshold(topic, message, g.autoWaterThreshold)
        dec == decide(g.soilPct, g.waterOk, th)
    IN  [g EXCEPT !.autoWaterThreshold = th,
                  !.pumpOn = (dec = "PUMP_ON"),
                  !.relay = RelayLevel(dec)]

\* callback(): the globals and the relay pin after a message
callback(topic, message, g) ==
    [g EXCEPT !.autoWaterThreshold =
                  NewThreshold(topic, message, g.autoWaterThreshold)]

\* the delay skipped when the pump was already ON
PumpDelayOnEdge(dec, wasOn) ==
    IF dec = "PUMP_ON" /\ ~wasOn THEN PUMP_SAFETY_DELAY ELSE 0

\* loop(): milliseconds of delay() in the branch taken
PumpDelay(dec, wasOn) == IF dec = "PUMP_ON" THEN PUMP_SAFETY_DELAY ELSE 0

\* the interval test written millis() >= lastLoopTime + LOOP_DELAY
TickDueAbsolute(t, last) ==
    LET due == Add32(last, LOOP_DELAY)
    IN  t.hi > due.hi \/ (t.hi = due.hi /\ t.lo >= due.lo)

\* loop(): millis() - lastLoopTime >= LOOP_DELAY
TickDue(t, last) == GE32(Sub32(t, last), LOOP_DELAY)

\* catch-up scheduling: lastLoopTime += LOOP_DELAY
NextLoopTimeCatchUp(t, last) == Add32(last, LOOP_DELAY)

\* loop(): lastLoopTime = millis()
NextLoopTime(t, last) == t

\* publish without asking client.connected()
ShouldPublishAlways(conn) == TRUE

\* loop(): if (client.connected()) publish
ShouldPublish(conn) == conn

Frame(soil, threshold, t, water, pump) ==
    [soil |-> soil, set |-> threshold, temp |-> FloatChars(t, 1),
     water |-> water, pump |-> IF pump THEN "ON" ELSE "OFF"]

BootFrame == [soil |-> -1, set |-> -1, temp |-> << >>, water |-> -1, pump |-> "boot"]

Payload(soil, t, h, wok) ==
    IntChars(soil) \o <<",">> \o FloatChars(t, 1) \o <<",">>
        \o FloatChars(h, 0) \o <<",">> \o IntChars(IF wok THEN 1 ELSE 0)

\* ------------------------------------------------------------------------
\* setup()
\* ------------------------------------------------------------------------
loopVars ==
    <<connected, subscribed, pending, autoWaterThreshold, lastLoopTime, temp,
      hum, soilPct, waterLevelRaw, waterOk, pumpOn>>

tickObs ==
    <<prevPumpOn, decision, tickThreshold, tickStart, blocked,
      tickCount, pubCount, published, pubConnected, dhtFailed, tickAt>>

msgObs == <<lastMsg>>

\* setup() that leaves the relay pin HIGH
SetupPinsDriveHigh ==
    /\ pc = "setup"
    /\ relay' = "HIGH"
    /\ pc' = "display"
    /\ UNCHANGED <<now, displayOk, screen, elapsed, loopVars, tickObs, msgObs, connects>>
    /\ UNCHANGED fnVars

\* Serial.begin .. digitalWrite(RELAY_PIN, LOW)
SetupPins ==
    /\ pc = "setup"
    /\ relay' = "LOW"
    /\ pc' = "display"
    /\ UNCHANGED <<now, displayOk, screen, elapsed, loopVars, tickObs, msgObs, connects>>
    /\ UNCHANGED fnVars

\* display.begin .. display.display(), then setup_wifi() up to WiFi.begin
SetupDisplay ==
    /\ pc = "display"
    /\ \E ok \in BOOLEAN : displayOk' = ok
    /\ screen' = BootFrame
    /\ now' = Add32(now, WifiSettle)
    /\ elapsed' = elapsed + WifiSettle
    /\ pc' = "wifi"
    /\ UNCHANGED <<relay, loopVars, tickObs, msgObs, connects>>
    /\ UNCHANGED fnVars

\* while (WiFi.status() != WL_CONNECTED) delay(500)
WifiWait ==
    /\ pc = "wifi"
    /\ elapsed + WifiPoll <= MaxTime
    /\ now' = Add32(now, WifiPoll)
    /\ elapsed' = elapsed + WifiPoll
    /\ UNCHANGED <<pc, relay, displayOk, screen, loopVars, tickObs, msgObs, connects>>
    /\ UNCHANGED fnVars

\* WiFi associated: setServer, setCallback, setup() returns
WifiUp ==
    /\ pc = "wifi"
    /\ pc' = "top"
    /\ UNCHANGED <<now, relay, displayOk, screen, elapsed, loopVars, tickObs, msgObs, connects>>
    /\ UNCHANGED fnVars

\* ------------------------------------------------------------------------
\* Environment
\* ------------------------------------------------------------------------
InLoop == pc \in {"top", "drain", "check", "delay"}

\* time passes between two iterations of loop()
Elapse ==
    /\ pc = "top"
    /\ \E d \in Elapses :
        /\ elapsed + d <= MaxTime
        /\ now' = Add32(now, d)
        /\ elapsed' = elapsed + d
    /\ UNCHANGED <<pc, relay, displayOk, screen, loopVars, tickObs, msgObs, connects>>
    /\ UNCHANGED fnVars

\* the broker delivers a packet to the socket
Arrive ==
    /\ InLoop
    /\ connected
    /\ pending < MaxInbox
    /\ pending' = pending + 1
    /\ UNCHANGED <<pc, now, relay, displayOk, screen, elapsed, connected, subscribed,
                   autoWaterThreshold, lastLoopTime, temp, hum, soilPct,
                   waterLevelRaw, waterOk, pumpOn, tickObs, msgObs, connects>>
    /\ UNCHANGED fnVars

\* the connection to the broker is lost
Drop ==
    /\ InLoop
    /\ connected
    /\ connected' = FALSE
    /\ subscribed' = FALSE
    /\ pending' = 0
    /\ UNCHANGED <<pc, now, relay, displayOk, screen, elapsed,
                   autoWaterThreshold, lastLoopTime, temp, hum, soilPct,
                   waterLevelRaw, waterOk, pumpOn, tickObs, msgObs, connects>>
    /\ UNCHANGED fnVars

\* ------------------------------------------------------------------------
\* loop()
\* ------------------------------------------------------------------------
\* reconnect() that connects and leaves the control topic unsubscribed
SubscribedNever(ok) == FALSE

\* reconnect(): client.subscribe(CONTROL_TOPIC) runs iff client.connect() succeeded
SubscribedAfter(ok) == ok

\* if (!client.connected()) reconnect();
Reconnect ==
    /\ pc = "top"
    /\ IF ~connected
       THEN \E ok \in BOOLEAN :
               /\ connected' = ok
               /\ subscribed' = SubscribedAfter(ok)
               /\ connects' = connects + 1
       ELSE UNCHANGED <<connected, subscribed, connects>>
    /\ pc' = "drain"
    /\ UNCHANGED <<now, relay, displayOk, screen, elapsed, pending,
                   autoWaterThreshold, lastLoopTime, temp, hum, soilPct,
                   waterLevelRaw, waterOk, pumpOn, tickObs, msgObs>>
    /\ UNCHANGED fnVars

\* the globals callback() can reach, and the relay pin
Globals ==
    [autoWaterThreshold |-> autoWaterThreshold, lastLoopTime |-> lastLoopTime,
     temp |-> temp, hum |-> hum, soilPct |-> soilPct,
     waterLevelRaw |-> waterLevelRaw, waterOk |-> waterOk, pumpOn |-> pumpOn,
     relay |-> relay]

\* client.loop() called at one of `places`: one waiting packet is read and
\* handed to callback()
ClientLoopFrom(places, inbound) ==
    /\ pc \in places
    /\ IF connected /\ pending > 0
       THEN \E m \in inbound :
               LET g == callback(m.topic, m.payload, Globals)
               IN  /\ pending' = pending - 1
                   /\ lastMsg' = m
                   /\ autoWaterThreshold' = g.autoWaterThreshold
                   /\ lastLoopTime' = g.lastLoopTime
                   /\ temp' = g.temp
                   /\ hum' = g.hum
                   /\ soilPct' = g.soilPct
                   /\ waterLevelRaw' = g.waterLevelRaw
                   /\ waterOk' = g.waterOk
                   /\ pumpOn' = g.pumpOn
                   /\ relay' = g.relay
       ELSE UNCHANGED <<pending, lastMsg, autoWaterThreshold, lastLoopTime, temp,
                        hum, soilPct, waterLevelRaw, waterOk, pumpOn, relay>>
    /\ pc' = (IF pc = "drain" THEN "check" ELSE pc)
    /\ connects' = (IF pc = "drain" THEN 0 ELSE connects)
    /\ UNCHANGED <<now, displayOk, screen, elapsed, connected, subscribed, tickObs>>
    /\ UNCHANGED fnVars

\* client.loop() also called while the safety delay waits
ClientLoopAlsoInDelay(inbound) == ClientLoopFrom({"drain", "delay"}, inbound)

\* loop(): client.loop() is called once, between reconnect and the tick
ClientLoop(inbound) == ClientLoopFrom({"drain"}, inbound)

\* the interval has not elapsed: loop() returns
Skip ==
    /\ pc = "check"
    /\ ~TickDue(now, lastLoopTime)
    /\ pc' = "top"
    /\ UNCHANGED <<now, relay, displayOk, screen, elapsed, loopVars, tickObs, msgObs,
                   connects>>
    /\ UNCHANGED fnVars

\* display refresh and publish that end, at time t, the tick begun at start
Report(t, start, soil, tmp, h, water, wok, pump) ==
    /\ screen' = Frame(soil, autoWaterThreshold, tmp, water, pump)
    /\ pubConnected' = connected
    /\ IF ShouldPublish(connected)
       THEN /\ published' = Payload(soil, tmp, h, wok)
            /\ pubCount' = pubCount + 1
       ELSE /\ published' = << >>
            /\ pubCount' = pubCount
    /\ blocked' = Sub32(t, start).lo
    /\ pc' = "top"

\* the interval has elapsed: read, decide, drive the relay
TickBody(dhtReads, soilRaws, waterRaws) ==
    /\ pc = "check"
    /\ TickDue(now, lastLoopTime)
    /\ \E dht \in dhtReads, rawSoil \in soilRaws, rawWater \in waterRaws :
        LET t == StoreReading(dht.t, temp)
            h == StoreReading(dht.h, hum)
            soil == SoilPctOf(rawSoil)
            wok == WaterGate(rawWater, INVERT_WATER_LOGIC)
            dec == decide(soil, wok, autoWaterThreshold)
        IN  /\ lastLoopTime' = NextLoopTime(now, lastLoopTime)
            /\ temp' = t
            /\ hum' = h
            /\ soilPct' = soil
            /\ waterLevelRaw' = rawWater
            /\ waterOk' = wok
            /\ relay' = RelayLevel(dec)
            /\ pumpOn' = (dec = "PUMP_ON")
            /\ prevPumpOn' = pumpOn
            /\ decision' = dec
            /\ tickThreshold' = autoWaterThreshold
            /\ tickStart' = now
            /\ tickCount' = tickCount + 1
            /\ dhtFailed' = dht.t.nan
            /\ tickAt' = elapsed
            /\ IF PumpDelay(dec, pumpOn) > 0
               THEN /\ pc' = "delay"
                    /\ published' = << >>
                    /\ blocked' = 0
                    /\ UNCHANGED <<screen, pubConnected, pubCount>>
               ELSE Report(now, now, soil, t, h, rawWater, wok, dec = "PUMP_ON")
    /\ UNCHANGED <<now, displayOk, elapsed, connected, subscribed, pending,
                   autoWaterThreshold, msgObs, connects>>
    /\ UNCHANGED fnVars

\* a tick that returns from loop() when the DHT read failed
TickReturnOnFailedRead(dhtReads, soilRaws, waterRaws) ==
    \/ TickBody({r \in dhtReads : ~r.t.nan}, soilRaws, waterRaws)
    \/ /\ pc = "check"
       /\ TickDue(now, lastLoopTime)
       /\ \E r \in dhtReads : r.t.nan
       /\ lastLoopTime' = NextLoopTime(now, lastLoopTime)
       /\ temp' = NaN
       /\ hum' = NaN
       /\ pc' = "top"
       /\ UNCHANGED <<now, relay, displayOk, connected, subscribed, pending,
                      autoWaterThreshold, soilPct, waterLevelRaw, waterOk, pumpOn,
                      screen, elapsed, tickObs, msgObs, connects>>
       /\ UNCHANGED fnVars

\* if (millis() - lastLoopTime >= LOOP_DELAY) { ... }
Tick(dhtReads, soilRaws, waterRaws) == TickBody(dhtReads, soilRaws, waterRaws)

\* delay(PUMP_SAFETY_DELAY) returns; the tick goes on to refresh and publish
DelayEnd ==
    /\ pc = "delay"
    /\ now' = Add32(now, PUMP_SAFETY_DELAY)
    /\ elapsed' = elapsed + PUMP_SAFETY_DELAY
    /\ Report(Add32(now, PUMP_SAFETY_DELAY), tickStart,
              soilPct, temp, hum, waterLevelRaw, waterOk, pumpOn)
    /\ UNCHANGED <<relay, displayOk, loopVars, msgObs, prevPumpOn, decision,
                   tickThreshold, tickStart, tickCount, dhtFailed, tickAt, connects>>
    /\ UNCHANGED fnVars

Next ==
    \/ SetupPins
    \/ SetupDisplay
    \/ WifiWait
    \/ WifiUp
    \/ Elapse
    \/ Arrive
    \/ Drop
    \/ Reconnect
    \/ ClientLoop(CoreMsgs)
    \/ Skip
    \/ Tick(DhtReads, SoilRaws, WaterRaws)
    \/ DelayEnd

Spec == Init /\ [][Next]_vars


\* ------------------------------------------------------------------------
\* The same program fed every control payload and one sensor sample
\* ------------------------------------------------------------------------
BenchDht == { [t |-> Num(234), h |-> Num(550)] }
BenchSoilRaws == {3250}
BenchWaterRaws == {1001}

NextMsg ==
    \/ SetupPins
    \/ SetupDisplay
    \/ WifiWait
    \/ WifiUp
    \/ Elapse
    \/ Arrive
    \/ Drop
    \/ Reconnect
    \/ ClientLoop(Msgs)
    \/ Skip
    \/ Tick(BenchDht, BenchSoilRaws, BenchWaterRaws)
    \/ DelayEnd

MsgSpec == Init /\ [][NextMsg]_vars

\* ------------------------------------------------------------------------
\* The program with loop() called again and again, as the Arduino core does
\* ------------------------------------------------------------------------
NextLive ==
    \/ SetupPins
    \/ SetupDisplay
    \/ WifiWait
    \/ WifiUp
    \/ Elapse
    \/ Arrive
    \/ Drop
    \/ Reconnect
    \/ ClientLoop(CoreMsgs)
    \/ Skip
    \/ Tick(BenchDht, BenchSoilRaws, WaterRaws)
    \/ DelayEnd

\* one statement of loop(): each returns, and loop() is entered again
LoopStep ==
    \/ Reconnect
    \/ ClientLoop(CoreMsgs)
    \/ Skip
    \/ Tick(BenchDht, BenchSoilRaws, WaterRaws)
    \/ DelayEnd

\* loop() never stops being called, and millis() keeps advancing between
\* its iterations for as long as the run lasts
LiveSpec ==
    Init /\ [][NextLive]_vars /\ WF_vars(LoopStep) /\ SF_vars(Elapse)

\* ------------------------------------------------------------------------
\* loop() taken up 49.7 days after boot, 1000 ms before millis() wraps to 0
\* ------------------------------------------------------------------------
WrapStart == [hi |-> Limb - 1, lo |-> Limb - 1000]

\* at the top of loop(), `since` ms after a PUMP_OFF tick that ran with the
\* channel down: wet soil, water sufficient, DHT read good
WrapInit ==
    \E since \in {500, 1500} :
        LET soil == SoilPctOf(WET_VAL)
            t == Num(234)
            h == Num(550)
            water == WATER_SENSOR_THRESHOLD + 1
        IN  /\ pc = "top"
            /\ now = WrapStart
            /\ relay = "LOW"
            /\ displayOk = TRUE
            /\ connected = FALSE
            /\ subscribed = FALSE
            /\ pending = 0
            /\ autoWaterThreshold = DefaultThreshold
            /\ lastLoopTime = Sub32(WrapStart, U32(since))
            /\ temp = t
            /\ hum = h
            /\ soilPct = soil
            /\ waterLevelRaw = water
            /\ waterOk = WaterGate(water, INVERT_WATER_LOGIC)
            /\ pumpOn = FALSE
            /\ screen = Frame(soil, DefaultThreshold, t, water, FALSE)
            /\ elapsed = 0
            /\ lastMsg = NoMsg
            /\ prevPumpOn = FALSE
            /\ decision = "PUMP_OFF"
            /\ tickThreshold = DefaultThreshold
            /\ tickStart = Sub32(WrapStart, U32(since))
            /\ blocked = 0
            /\ tickCount = 1
            /\ pubCount = 0
            /\ published = << >>
            /\ pubConnected = FALSE
            /\ dhtFailed = FALSE
            /\ tickAt = -since
            /\ connects = 0
            /\ FnIdle

NextWrap ==
    \/ Elapse
    \/ Arrive
    \/ Drop
    \/ Reconnect
    \/ ClientLoop(CoreMsgs)
    \/ Skip
    \/ Tick(BenchDht, BenchSoilRaws, WaterRaws)
    \/ DelayEnd

WrapSpec == WrapInit /\ [][NextWrap]_vars

\* ------------------------------------------------------------------------
\* The water gate of lines 137-142 applied to every raw level and polarity
\* ------------------------------------------------------------------------
\* Largest raw sample tried (the 12-bit ADC reads 0..4095)
MaxRaw == 4300

GateInit ==
    /\ Boot
    /\ fnPc = "input"
    /\ gateRaw \in 0..MaxRaw
    /\ gateInvert \in BOOLEAN
    /\ gateOk = FALSE
    /\ mapRaw = DRY_VAL
    /\ mapRaw2 = DRY_VAL
    /\ mapPct = 0
    /\ mapPct2 = 0

GateEvaluate ==
    /\ fnPc = "input"
    /\ gateOk' = WaterGate(gateRaw, gateInvert)
    /\ fnPc' = "done"
    /\ UNCHANGED <<progVars, obsVars, gateRaw, gateInvert, mapRaw, mapRaw2, mapPct, mapPct2>>

GateSpec == GateInit /\ [][GateEvaluate]_vars

\* ------------------------------------------------------------------------
\* The soil mapping of lines 132-133 applied to two raw values
\* ------------------------------------------------------------------------
\* Largest distance between the two raw values compared
MapStep == 3

MapInit ==
    /\ Boot
    /\ fnPc = "input"
    /\ gateRaw = 0
    /\ gateInvert = INVERT_WATER_LOGIC
    /\ gateOk = FALSE
    /\ mapRaw \in 0..MaxRaw
    /\ mapRaw2 \in mapRaw..(mapRaw + MapStep)
    /\ mapPct = 0
    /\ mapPct2 = 0

MapSoil ==
    /\ fnPc = "input"
    /\ mapPct' = SoilPctOf(mapRaw)
    /\ mapPct2' = SoilPctOf(mapRaw2)
    /\ fnPc' = "done"
    /\ UNCHANGED <<progVars, obsVars, gateRaw, gateInvert, gateOk, mapRaw, mapRaw2>>

MapSpec == MapInit /\ [][MapSoil]_vars

\* ------------------------------------------------------------------------
\* Properties
\* ------------------------------------------------------------------------
\* a tick has run to its end at least once and none is in progress
TickDone == tickCount > 0 /\ pc # "delay"

\* this step ends a tick (its display refresh and publish have run)
TickEnds ==
    \/ pc = "check" /\ pc' = "top" /\ tickCount' # tickCount
    \/ pc = "delay" /\ pc' = "top"

\* this step is client.loop() handing lastMsg' to callback()
Delivered == pc = "drain" /\ pc' = "check" /\ pending' = pending - 1

\* a decimal integer string: an optional minus sign, then digits only
IsDecimalInt(s) ==
    LET d == IF s # << >> /\ Head(s) = "-" THEN Tail(s) ELSE s
    IN  d # << >> /\ \A i \in 1..Len(d) : IsDigit(d[i])

RECURSIVE DigitsValue(_)
DigitsValue(d) ==
    IF d = << >> THEN 0
    ELSE 10 * DigitsValue(SubSeq(d, 1, Len(d) - 1)) + DigitVal(d[Len(d)])

DecimalValue(s) ==
    IF Head(s) = "-" THEN -DigitsValue(Tail(s)) ELSE DigitsValue(s)

\* C1: once a tick has classified the reservoir insufficient (waterOk false),
\* the relay is LOW and pumpOn is false, whatever the soil moisture, the
\* threshold and the pump state before the tick.
WaterInterlock ==
    (tickCount > 0 /\ ~waterOk) => (relay = "LOW" /\ ~pumpOn)

\* a tick found the reservoir insufficient with dry soil and the pump ON before it
WaterInterlockWitness ==
    /\ TickDone
    /\ ~waterOk
    /\ prevPumpOn
    /\ soilPct < tickThreshold
    /\ relay = "LOW"

\* C2: after a tick with waterOk true the pump is ON exactly when soilPct is
\* below the threshold the tick read, whatever the pump state before the tick.
PumpIffDry ==
    (tickCount > 0 /\ waterOk) =>
        /\ soilPct \in 0..100
        /\ tickThreshold \in 1..99
        /\ pumpOn <=> (soilPct < tickThreshold)
        /\ relay = (IF soilPct < tickThreshold THEN "HIGH" ELSE "LOW")

\* a tick with soilPct equal to the threshold turned a running pump OFF
PumpIffDryWitness ==
    /\ TickDone
    /\ waterOk
    /\ soilPct = tickThreshold
    /\ prevPumpOn
    /\ ~pumpOn

\* C3: the threshold is an integer strictly between 0 and 100 in every state,
\* and is 30 until a message has been handled.
ThresholdInRange ==
    /\ autoWaterThreshold \in 1..99
    /\ lastMsg = NoMsg => autoWaterThreshold = 30

\* an out-of-range control message was handled after the threshold had moved
ThresholdInRangeWitness ==
    /\ lastMsg.topic = CONTROL_TOPIC
    /\ lastMsg.payload = <<"1", "0", "0">>
    /\ autoWaterThreshold = 45

\* C4: a control-topic message carrying a decimal integer n with 0 < n < 100
\* sets the threshold to n; one carrying a decimal integer <= 0 or >= 100, or
\* one on another topic, leaves the threshold unchanged.
ThresholdUpdate ==
    [][Delivered =>
        LET m == lastMsg'
            dec == IsDecimalInt(m.payload)
        IN  /\ (m.topic = CONTROL_TOPIC /\ dec
                   /\ DecimalValue(m.payload) > 0 /\ DecimalValue(m.payload) < 100)
                => autoWaterThreshold' = DecimalValue(m.payload)
            /\ (m.topic = CONTROL_TOPIC /\ dec
                   /\ (DecimalValue(m.payload) <= 0 \/ DecimalValue(m.payload) >= 100))
                => autoWaterThreshold' = autoWaterThreshold
            /\ m.topic # CONTROL_TOPIC
                => autoWaterThreshold' = autoWaterThreshold]_vars

\* "45" on the control topic was handled and the threshold is 45
ThresholdUpdateWitness ==
    /\ lastMsg = [topic |-> CONTROL_TOPIC, payload |-> <<"4", "5">>]
    /\ autoWaterThreshold = 45
    /\ pc = "check"

\* C5: a control-topic payload that is not a decimal integer string leaves the
\* threshold unchanged.
MalformedDiscarded ==
    [][(Delivered /\ lastMsg'.topic = CONTROL_TOPIC /\ ~IsDecimalInt(lastMsg'.payload))
          => autoWaterThreshold' = autoWaterThreshold]_vars

\* C6: without inversion waterOk is true exactly when the raw level is
\* strictly above 1000; with inversion it is the complement.
WaterGateStep ==
    fnPc = "done" =>
        /\ ~gateInvert => (gateOk <=> gateRaw > 1000)
        /\ gateInvert => (gateOk <=> ~(gateRaw > 1000))

\* the raw level equal to the threshold was classified insufficient
WaterGateStepWitness ==
    fnPc = "done" /\ gateRaw = 1000 /\ ~gateInvert /\ ~gateOk

\* C7: raw 4095 maps to 0, raw 1200 to 100, raw values outside [1200, 4095]
\* are clamped to 0 or 100, the result is always in [0,100], and a larger raw
\* value never maps to a larger percentage.
SoilMapping ==
    fnPc = "done" =>
        /\ mapPct \in 0..100
        /\ mapRaw = 4095 => mapPct = 0
        /\ mapRaw = 1200 => mapPct = 100
        /\ mapRaw > 4095 => mapPct = 0
        /\ mapRaw < 1200 => mapPct = 100
        /\ mapRaw2 >= mapRaw => mapPct2 <= mapPct

\* a raw value below WET_VAL was clamped to 100 next to one inside the range
SoilMappingWitness ==
    fnPc = "done" /\ mapRaw = 1199 /\ mapPct = 100 /\ mapRaw2 = 1202 /\ mapPct2 = 99

\* C8: a finished tick has spent the safety delay (500 ms) in delay() exactly
\* when its decision was PUMP_ON, also when the pump was already ON; a
\* PUMP_OFF tick has spent no time blocked.
SafetyDelay ==
    TickDone =>
        /\ decision = "PUMP_ON" => blocked >= 500
        /\ decision = "PUMP_OFF" => blocked = 0
        /\ decision \in {"PUMP_ON", "PUMP_OFF"}

\* a PUMP_ON tick that found the pump already ON was delayed all the same
SafetyDelayWitness ==
    TickDone /\ decision = "PUMP_ON" /\ prevPumpOn /\ blocked >= 500

\* C9: a tick begins only when millis() - lastLoopTime >= 2000, it records
\* its own start as lastLoopTime, and two consecutive ticks begin at least
\* 2000 ms apart, so a stall of several intervals is followed by one tick.
TickCadence ==
    [][tickCount' # tickCount =>
        /\ tickCount' = tickCount + 1
        /\ GE32(Sub32(now, lastLoopTime), 2000)
        /\ tickStart' = now
        /\ lastLoopTime' = tickStart'
        /\ tickCount > 0 => GE32(Sub32(tickStart', tickStart), 2000)]_vars

\* back at the interval check after the one tick that followed a stall of
\* more than two intervals, with no time gone by since that tick began
TickCadenceWitness ==
    /\ tickCount = 1
    /\ pc = "check"
    /\ now = tickStart
    /\ GE32(tickStart, 4000)
    /\ ~TickDue(now, lastLoopTime)

\* C10: the end of a tick publishes once if client.connected() holds there
\* and not at all otherwise, nothing else ever publishes, and the last field
\* of the published payload is the waterOk the tick decided on.
TelemetryPublishing ==
    [][/\ TickEnds =>
            /\ pubCount' = pubCount + (IF connected THEN 1 ELSE 0)
            /\ connected =>
                /\ published' # << >>
                /\ published'[Len(published')] = (IF waterOk' THEN "1" ELSE "0")
                /\ published'[Len(published')] = "0" => decision' = "PUMP_OFF"
            /\ ~connected => published' = << >>
       /\ ~TickEnds => pubCount' = pubCount]_vars

\* a tick ended while disconnected; the channel is connected again and
\* nothing has been published
TelemetryPublishingWitness ==
    /\ TickDone
    /\ ~pubConnected
    /\ connected
    /\ pubCount = 0
    /\ published = << >>

\* C11: between ticks (at the top of loop(), before client.loop() and at the
\* interval check) pumpOn is true only if the latest tick decided PUMP_ON and
\* has spent its safety delay; in every state pumpOn is true exactly when the
\* level last written to the relay is HIGH.
PumpState ==
    /\ pumpOn <=> relay = "HIGH"
    /\ (pc \in {"top", "drain", "check"} /\ pumpOn) =>
           /\ decision = "PUMP_ON"
           /\ blocked >= PUMP_SAFETY_DELAY

\* the loop is reconnecting after a PUMP_ON tick: pump ON, relay HIGH, delay spent
PumpStateWitness ==
    /\ pc = "top"
    /\ ~connected
    /\ pumpOn
    /\ relay = "HIGH"
    /\ decision = "PUMP_ON"
    /\ blocked = PUMP_SAFETY_DELAY

\* C12: callback() runs only from the client.loop() call that precedes the
\* interval check: no step of a tick, its safety delay included, changes the
\* threshold or handles a message, a message arriving meanwhile only waits,
\* and the threshold a finished tick displays is the one its decision read.
TickAtomic ==
    [][/\ (pc = "delay" \/ tickCount' # tickCount) =>
              /\ autoWaterThreshold' = autoWaterThreshold
              /\ lastMsg' = lastMsg
       /\ (autoWaterThreshold' # autoWaterThreshold \/ lastMsg' # lastMsg) =>
              Delivered
       /\ TickEnds =>
              /\ screen'.set = tickThreshold'
              /\ tickThreshold' = autoWaterThreshold']_vars

\* a control message waits in the socket while the safety delay runs
TickAtomicWitness ==
    /\ pc = "delay"
    /\ pending > 0
    /\ pumpOn
    /\ autoWaterThreshold = tickThreshold

\* C13: only callback() writes the threshold; the step that handles a message
\* leaves pumpOn, the relay, the last readings and lastLoopTime unchanged, and
\* pumpOn and the relay change only in the step that begins a tick.
HandlerFrame ==
    [][/\ autoWaterThreshold' # autoWaterThreshold => Delivered
       /\ Delivered =>
              UNCHANGED <<pumpOn, relay, temp, hum, soilPct, waterLevelRaw,
                          waterOk, lastLoopTime, tickCount, screen>>
       /\ (pumpOn' # pumpOn \/ (relay' # relay /\ pc # "setup")) =>
              tickCount' = tickCount + 1]_vars

\* "1" was handled while the pump runs on the threshold 30 of the last tick:
\* the soil is no longer below the threshold and the pump is still ON
HandlerFrameWitness ==
    /\ pc = "check"
    /\ lastMsg = [topic |-> CONTROL_TOPIC, payload |-> <<"1">>]
    /\ autoWaterThreshold = 1
    /\ tickThreshold = DefaultThreshold
    /\ pumpOn
    /\ relay = "HIGH"
    /\ ~(soilPct < autoWaterThreshold)

\* the positions of the commas of a payload, and its k-th field of four
Commas(s) == {i \in 1..Len(s) : s[i] = ","}

KthComma(s, k) ==
    CHOOSE i \in Commas(s) : Cardinality({j \in Commas(s) : j < i}) = k - 1

Field(s, k) ==
    SubSeq(s, IF k = 1 THEN 1 ELSE KthComma(s, k - 1) + 1,
              IF k = 4 THEN Len(s) ELSE KthComma(s, k) - 1)

\* a decimal number: an optional minus sign, digits, at most one point
IsDecimalNumber(s) ==
    LET d == IF s # << >> /\ Head(s) = "-" THEN Tail(s) ELSE s
    IN  /\ \E i \in 1..Len(d) : IsDigit(d[i])
        /\ \A i \in 1..Len(d) : IsDigit(d[i]) \/ d[i] = "."
        /\ Cardinality({i \in 1..Len(d) : d[i] = "."}) <= 1

\* C14: when the DHT read of a tick failed, the temperature and humidity
\* fields of the payload that tick published are the marker "nan", which is
\* not a decimal number (so neither 0 nor the value of an earlier tick).
FailedReadMarked ==
    (TickDone /\ dhtFailed /\ published # << >>) =>
        /\ Cardinality(Commas(published)) = 3
        /\ Field(published, 2) = <<"n", "a", "n">>
        /\ Field(published, 3) = <<"n", "a", "n">>
        /\ ~IsDecimalNumber(Field(published, 2))
        /\ ~IsDecimalNumber(Field(published, 3))

\* the second tick published after a failed DHT read: "nan" in both fields
FailedReadMarkedWitness ==
    /\ TickDone
    /\ tickCount = 2
    /\ pubCount = 2
    /\ dhtFailed
    /\ Field(published, 2) = <<"n", "a", "n">>
    /\ Field(published, 3) = <<"n", "a", "n">>
    /\ IsDecimalNumber(Field(published, 1))

\* C15: whenever the loop leaves the interval check with the interval elapsed,
\* it does so by a tick that reads soil and water and drives the relay, with
\* the DHT read failed or not and the channel connected or not; the pump
\* outcome is a function of soil, water and threshold alone.
IrrigationUnaffected ==
    [][(pc = "check" /\ TickDue(now, lastLoopTime) /\ pc' # "check") =>
          LET on == waterOk' /\ soilPct' < autoWaterThreshold
          IN  /\ tickCount' = tickCount + 1
              /\ soilPct' \in 0..100
              /\ waterOk' = (waterLevelRaw' > 1000)
              /\ pumpOn' = on
              /\ relay' = (IF on THEN "HIGH" ELSE "LOW")
              /\ decision' = (IF on THEN "PUMP_ON" ELSE "PUMP_OFF")]_vars

\* a tick whose DHT read failed and that found the channel down turned the pump ON
IrrigationUnaffectedWitness ==
    /\ TickDone
    /\ dhtFailed
    /\ temp.nan
    /\ ~pubConnected
    /\ ~prevPumpOn
    /\ pumpOn
    /\ relay = "HIGH"

\* C16: when the temperature read of a tick fails, the frame that tick sends
\* to the display shows the temperature of the last successful read (here:
\* the previous tick's, for a tick that goes straight on to the display).
LastKnownShown ==
    [][(tickCount' = tickCount + 1 /\ pc' = "top" /\ dhtFailed'
            /\ tickCount > 0 /\ ~dhtFailed /\ ~temp.nan)
          => screen'.temp = FloatChars(temp, 1)]_vars

\* this step is reconnect() returning to loop()
Reconnected == pc = "top" /\ pc' = "drain"

\* client.connect() returns true
ConnectSucceeds == ~connected /\ Reconnect /\ connected'

\* C17: an iteration of loop() that finds the channel down makes exactly one
\* client.connect() call, however many earlier ones failed, and one that finds
\* it up makes none; the channel comes up only there, and whenever it is up
\* the control topic is subscribed (so before any tick runs); if connect
\* attempts that keep being made eventually succeed, a channel that is down
\* eventually becomes connected and subscribed.
ReconnectPolicy ==
    /\ [][/\ Reconnected => connects' = (IF connected THEN 0 ELSE 1)
          /\ ~Reconnected => connects' <= connects
          /\ (~connected /\ connected') => Reconnected]_vars
    /\ [](connected => subscribed)
    /\ SF_vars(ConnectSucceeds) =>
           ((InLoop /\ ~connected) ~> (connected /\ subscribed))

\* after a tick that ran with the channel down, a later iteration has made
\* its one connect call, which succeeded, and the topic is subscribed
ReconnectPolicyWitness ==
    /\ pc = "drain"
    /\ tickCount > 0
    /\ ~pubConnected
    /\ connects = 1
    /\ connected
    /\ subscribed

\* C18: a tick that finds the pump ON and the reservoir insufficient turns it
\* OFF and begins no later than one poll interval (2000 ms) after the tick
\* before it began; outside the step that begins a tick the relay and pumpOn
\* keep their values.
DryResponseInTime ==
    [][/\ (tickCount' = tickCount + 1 /\ pumpOn /\ ~waterOk') =>
              /\ ~pumpOn'
              /\ relay' = "LOW"
              /\ elapsed - tickAt <= 2000
       /\ (tickCount' = tickCount /\ pc # "setup") =>
              /\ pumpOn' = pumpOn
              /\ relay' = relay]_vars

\* C18 as the code has it: a tick that finds the pump ON and the reservoir
\* insufficient turns it OFF, and it begins no earlier than one poll interval
\* after the tick before it began; outside the step that begins a tick the
\* relay and pumpOn keep their values; while loop() keeps being called and
\* the clock advances, a pump that is ON is followed by an interval check that
\* finds the interval elapsed, which is left only by beginning the next tick
\* (for ticks that begin at least one interval and one clock step before the
\* end of the run).
DryResponse ==
    /\ [][/\ (tickCount' = tickCount + 1 /\ pumpOn /\ ~waterOk') =>
                 /\ ~pumpOn'
                 /\ relay' = "LOW"
                 /\ elapsed - tickAt >= 2000
          /\ (tickCount' = tickCount /\ pc # "setup") =>
                 /\ pumpOn' = pumpOn
                 /\ relay' = relay
          /\ (pc = "check" /\ TickDue(now, lastLoopTime) /\ pc' # "check") =>
                 tickCount' = tickCount + 1]_vars
    /\ (pumpOn /\ tickAt + 2000 + 500 <= MaxTime)
           ~> (pc = "check" /\ TickDue(now, lastLoopTime))

\* the second tick began 2500 ms after the one that turned the pump ON, found
\* the reservoir insufficient with the soil still dry, and turned the pump OFF
DryResponseWitness ==
    /\ pc = "top"
    /\ tickCount = 2
    /\ tickAt = 4510
    /\ blocked = 0
    /\ prevPumpOn
    /\ soilPct < tickThreshold
    /\ ~waterOk
    /\ ~pumpOn
    /\ relay = "LOW"

\* C19: across the wrap of millis() to 0 the interval check finds the
\* interval elapsed exactly when at least 2000 ms of real time have gone by
\* since the previous tick began: a tick begins only then (none early), and a
\* check made then can only be left by a tick (none suppressed).
WrapSafe ==
    /\ [](pc = "check" =>
             (TickDue(now, lastLoopTime) <=> elapsed - tickAt >= 2000))
    /\ [][/\ tickCount' # tickCount => elapsed - tickAt >= 2000
          /\ (pc = "check" /\ pc' # "check" /\ elapsed - tickAt >= 2000) =>
                 tickCount' = tickCount + 1]_vars

\* millis() has wrapped and the tick that followed the last one before the
\* wrap began exactly 2000 ms after it
WrapSafeWitness ==
    /\ tickCount = 2
    /\ tickStart = U32(500)
    /\ lastLoopTime = U32(500)
    /\ tickAt = 1500
    /\ now.hi = 0
    /\ pc # "check"

\* C20: in every state from boot until the first tick begins, the relay is
\* LOW and pumpOn is false.
StartupSafeFromBoot ==
    tickCount = 0 => (relay = "LOW" /\ ~pumpOn)

\* C20 as the code has it: setup() drives the relay LOW before the display
\* and the network are brought up; from that write until the first tick
\* begins the relay is LOW, through a failed display.begin() and a WiFi wait
\* of any length, and pumpOn is false from boot until the first tick begins.
StartupSafe ==
    /\ tickCount = 0 => ~pumpOn
    /\ pc \in {"display", "wifi"} => (tickCount = 0 /\ relay = "LOW")
    /\ (tickCount = 0 /\ pc # "setup") => relay = "LOW"
    /\ pc = "setup" => (tickCount = 0 /\ screen = NoScreen /\ ~connected)

\* display.begin() failed and the WiFi wait has lasted 6500 ms: relay LOW
StartupSafeWitness ==
    /\ pc = "wifi"
    /\ ~displayOk
    /\ elapsed = 6510
    /\ tickCount = 0
    /\ relay = "LOW"
    /\ ~pumpOn

====
